---- MODULE Spec2Model ----
(***************************************************************************)
(* The Delete screen of the market-watch app (src/Delete.tsx): a list of   *)
(* watchlist items that the user reorders by dragging and marks for bulk   *)
(* deletion.  The model holds the component's React state, its ref, its    *)
(* observable selection map, the shared watchlist store and the remote     *)
(* calls in flight.  One action per handler / continuation; every handler  *)
(* runs against the state of the last committed render (React flushes the  *)
(* state updates of an event before the next event is delivered), except   *)
(* for what an async handler captured in its closure before its await,     *)
(* which is carried in the in-flight call.                                 *)
(***************************************************************************)
EXTENDS Naturals, Sequences, FiniteSets, TLC

\* ---------------------------------------------------------------- bounds
\* Number of distinct items the shared store knows.
NumItems == 3
\* Number of remote calls (rearrange and bulk-delete together) issued in a run.
MaxCalls == 2

\* ----------------------------------------------------------------- items
Items == 1 .. NumItems
WatchlistIds == {"w1", "w2"}

\* item.token as stored: item 1 carries no token (undefined), the others a
\* non-empty string.
Undefined == "undefined"
TokenField(item) == IF item = 1 THEN Undefined ELSE ToString(item)

\* `s.token || ''`
Tok(item) == IF TokenField(item) \in {Undefined, ""} THEN "" ELSE TokenField(item)

\* `list.map(s => s.token || '')`
Tokens(list) == [i \in 1 .. Len(list) |-> Tok(list[i])]

Range(s) == {s[i] : i \in 1 .. Len(s)}

\* The orders a drag of the rendered list can end in: the drag collaborator
\* hands back the same items, in any order (the current one included).
DragOrders(list) ==
  {[i \in 1 .. Len(list) |-> list[p[i]]] :
     p \in {q \in [1 .. Len(list) -> 1 .. Len(list)] : \A i, j \in 1 .. Len(list) : q[i] = q[j] => i = j}}

\* Remove the i-th element of a sequence.
RemoveAt(s, i) == [k \in 1 .. Len(s) - 1 |-> IF k < i THEN s[k] ELSE s[k + 1]]

\* The data the store holds for each watchlist when the screen is first entered.
InitialStore == [w \in WatchlistIds |->
                   IF w = "w1" THEN [i \in 1 .. NumItems |-> i]
                   ELSE <<NumItems, 1>>]

VARIABLES
  watchlistId,   \* route.params.watchlistId of the current render
  stocks,        \* useState: the rendered ordered list of items
  isReady,       \* useState
  deleteMap,     \* useObservable: token -> boolean (a partial map)
  isSaving,      \* useState
  lastOrderRef,  \* useRef: lastOrderRef.current
  task,          \* the InteractionManager task of the effect
  store,         \* marketWatchStore.watchlists[id].data
  rearranges,    \* unresolved rearrangeWatchlist calls, in issue order
  deletes,       \* unresolved bulkDeleteFromWatchlist calls, in issue order
  issued,        \* number of remote calls issued so far (a call's seq is its rank)
  last           \* the handler that ran last and the collaborator calls it made

vars == <<watchlistId, stocks, isReady, deleteMap, isSaving,
          lastOrderRef, task, store, rearranges, deletes, issued, last>>

\* What the handler that ran last was (op), what it was handed (arg: the dragged
\* order; the toggled token and the isMarked its closure held; the call that a
\* continuation resumed from) and which collaborators it called (calls).
Event(op, arg, calls) == [op |-> op, arg |-> arg, calls |-> calls]

\* `Object.entries(deleteMap.peek()).filter(([_, value]) => value).map(([key]) => key)`
ItemsToDelete(map) == {k \in DOMAIN map : map[k]}

\* `deleteMap[token]?.get() ?? false`
IsMarked(map, token) == IF token \in DOMAIN map THEN map[token] ELSE FALSE

\* Mutant: the toggle always marks (`set(true)`).
SetMark_AlwaysTrue(map, token, value) ==
  [k \in DOMAIN map \cup {token} |-> IF k = token THEN TRUE ELSE map[k]]

\* `deleteMap[token]?.set(value)`
SetMark(map, token, value) ==
  [k \in DOMAIN map \cup {token} |-> IF k = token THEN value ELSE map[k]]

\* `Object.values(map)`: the values, one per key, in the object's key order.
ObjectValues(map) ==
  LET n == Cardinality(DOMAIN map)
      keyOrder == CHOOSE f \in [1 .. n -> DOMAIN map] : \A i, j \in 1 .. n : f[i] = f[j] => i = j
  IN [i \in 1 .. n |-> map[keyOrder[i]]]

\* Mutant: the count forgets `.filter(Boolean)`.
selectedCount_NoFilter == Len(ObjectValues(deleteMap))

\* `Object.values(deleteMap.get()).filter(Boolean).length`
selectedCount == Len(SelectSeq(ObjectValues(deleteMap), LAMBDA v : v))

\* Mutant: the arrays are compared by reference, so every drag counts as a change.
HasChanged_ByReference(newTokens, lastOrder) == TRUE

\* Mutant: the identity sets are compared instead of the positions.
HasChanged_BySet(newTokens, lastOrder) ==
  {newTokens[i] : i \in 1 .. Len(newTokens)} # {lastOrder[i] : i \in 1 .. Len(lastOrder)}

\* `newTokens.some((t, i) => t !== lastOrderRef.current[i])`
HasChanged(newTokens, lastOrder) ==
  \E i \in 1 .. Len(newTokens) : i > Len(lastOrder) \/ newTokens[i] # lastOrder[i]

\* Mutant: the filter forgets the `|| ''` fallback of the token.
RemoveDeleted_NoFallback(list, deleteSet) ==
  SelectSeq(list, LAMBDA s : TokenField(s) \notin deleteSet)

\* `stocks.filter(s => !deleteSet.has(s.token || ''))`
RemoveDeleted(list, deleteSet) == SelectSeq(list, LAMBDA s : Tok(s) \notin deleteSet)

EmptyMap == [k \in {} |-> FALSE]

Init ==
  /\ watchlistId \in WatchlistIds
  /\ stocks = <<>>
  /\ isReady = FALSE
  /\ deleteMap = EmptyMap
  /\ isSaving = FALSE
  /\ lastOrderRef = <<>>
  /\ task = "pending"
  /\ store = InitialStore
  /\ rearranges = <<>>
  /\ deletes = <<>>
  /\ issued = 0
  /\ last = Event("mount", <<>>, {})

\* The effect body: schedule the deferred load (a fresh entry, possibly with
\* another watchlistId).
Enter(w) ==
  /\ task = "none"
  /\ watchlistId' = w
  /\ task' = "pending"
  /\ last' = Event("enter", <<>>, {})
  /\ UNCHANGED <<stocks, isReady, deleteMap, isSaving, lastOrderRef,
                 store, rearranges, deletes, issued>>

\* Mutant: the deferred task forgets `lastOrderRef.current = ...`.
Load_KeepsRef ==
  /\ task = "pending"
  /\ stocks' = store[watchlistId]
  /\ isReady' = TRUE
  /\ task' = "ran"
  /\ last' = Event("load", <<>>, {})
  /\ UNCHANGED <<watchlistId, deleteMap, isSaving, store, rearranges, deletes, issued,
                 lastOrderRef>>

\* The deferred task runs.
Load ==
  /\ task = "pending"
  /\ stocks' = store[watchlistId]
  /\ lastOrderRef' = Tokens(store[watchlistId])
  /\ isReady' = TRUE
  /\ task' = "ran"
  /\ last' = Event("load", <<>>, {})
  /\ UNCHANGED <<watchlistId, deleteMap, isSaving, store, rearranges, deletes, issued>>

\* Mutant: the cleanup leaves the selection map alone.
Exit_KeepsSelection ==
  /\ task \in {"pending", "ran"}
  /\ task' = "none"
  /\ stocks' = <<>>
  /\ isReady' = FALSE
  /\ last' = Event("exit", <<>>, {})
  /\ UNCHANGED <<watchlistId, deleteMap, isSaving, lastOrderRef, store, rearranges,
                 deletes, issued>>

\* Mutant: the cleanup also abandons the remote calls in flight.
Exit_CancelsCalls ==
  /\ task \in {"pending", "ran"}
  /\ task' = "none"
  /\ stocks' = <<>>
  /\ isReady' = FALSE
  /\ deleteMap' = EmptyMap
  /\ rearranges' = <<>>
  /\ deletes' = <<>>
  /\ last' = Event("exit", <<>>, {})
  /\ UNCHANGED <<watchlistId, isSaving, lastOrderRef, store, issued>>

\* Mutant: the cleanup forgets `task.cancel()`.
Exit_NoCancel ==
  /\ task \in {"pending", "ran"}
  /\ task' = IF task = "pending" THEN "pending" ELSE "none"
  /\ stocks' = <<>>
  /\ isReady' = FALSE
  /\ deleteMap' = EmptyMap
  /\ last' = Event("exit", <<>>, {})
  /\ UNCHANGED <<watchlistId, isSaving, lastOrderRef, store, rearranges, deletes, issued>>

\* The effect's cleanup.
Exit ==
  /\ task \in {"pending", "ran"}
  /\ task' = "none"
  /\ stocks' = <<>>
  /\ isReady' = FALSE
  /\ deleteMap' = EmptyMap
  /\ last' = Event("exit", <<>>, {})
  /\ UNCHANGED <<watchlistId, isSaving, lastOrderRef, store, rearranges, deletes, issued>>

\* A row is rendered only while the list is (isReady and stocks non-empty).
Rendered == isReady /\ stocks # <<>>

Toggle(item) ==
  /\ Rendered
  /\ item \in Range(stocks)
  /\ deleteMap' = SetMark(deleteMap, Tok(item), ~IsMarked(deleteMap, Tok(item)))
  /\ last' = Event("toggle", <<Tok(item), ToString(IsMarked(deleteMap, Tok(item)))>>, {})
  /\ UNCHANGED <<watchlistId, stocks, isReady, isSaving, lastOrderRef,
                 task, store, rearranges, deletes, issued>>

OnDragEnd(newOrder) ==
  /\ Rendered
  /\ IF ~HasChanged(Tokens(newOrder), lastOrderRef)
       THEN /\ last' = Event("drag", newOrder, {})
            /\ UNCHANGED <<stocks, lastOrderRef, rearranges, issued>>
       ELSE /\ issued < MaxCalls
            /\ issued' = issued + 1
            /\ stocks' = newOrder
            /\ lastOrderRef' = Tokens(newOrder)
            /\ rearranges' = Append(rearranges,
                 [seq |-> issued + 1, watchlistId |-> watchlistId,
                  newTokens |-> Tokens(newOrder), newOrder |-> newOrder])
            /\ last' = Event("drag", newOrder, {"rearrangeWatchlist"})
  /\ UNCHANGED <<watchlistId, isReady, deleteMap, isSaving, task, store, deletes>>

\* Mutant: a response that is no longer the confirmed order is dropped.
RearrangeOk_IgnoresStale(i) ==
  /\ i \in 1 .. Len(rearranges)
  /\ store' = IF rearranges[i].newTokens = lastOrderRef
                THEN [store EXCEPT ![rearranges[i].watchlistId] = rearranges[i].newOrder]
                ELSE store
  /\ rearranges' = RemoveAt(rearranges, i)
  /\ last' = Event("rearrangeOk", rearranges[i], {"setData"})
  /\ UNCHANGED <<watchlistId, stocks, isReady, deleteMap, isSaving,
                 lastOrderRef, task, deletes, issued>>

\* The continuation of onDragEnd after the await (line 209): setData.
RearrangeOk(i) ==
  /\ i \in 1 .. Len(rearranges)
  /\ store' = [store EXCEPT ![rearranges[i].watchlistId] = rearranges[i].newOrder]
  /\ rearranges' = RemoveAt(rearranges, i)
  /\ last' = Event("rearrangeOk", rearranges[i], {"setData"})
  /\ UNCHANGED <<watchlistId, stocks, isReady, deleteMap, isSaving,
                 lastOrderRef, task, deletes, issued>>

\* Mutant: the catch block restores the stored order.
RearrangeFail_RollsBack(i) ==
  /\ i \in 1 .. Len(rearranges)
  /\ rearranges' = RemoveAt(rearranges, i)
  /\ stocks' = store[watchlistId]
  /\ lastOrderRef' = Tokens(store[watchlistId])
  /\ last' = Event("rearrangeFail", rearranges[i], {})
  /\ UNCHANGED <<watchlistId, isReady, deleteMap, isSaving, task, store, deletes, issued>>

\* The catch block of onDragEnd (lines 211-213): console.error only.
RearrangeFail(i) ==
  /\ i \in 1 .. Len(rearranges)
  /\ rearranges' = RemoveAt(rearranges, i)
  /\ last' = Event("rearrangeFail", rearranges[i], {})
  /\ UNCHANGED <<watchlistId, stocks, isReady, deleteMap, isSaving,
                 lastOrderRef, task, store, deletes, issued>>

\* Mutant: the guard forgets isSaving.
SaveBlocked_NoSavingGuard(saving, itemsToDelete) == itemsToDelete = {}

\* Mutant: the guard forgets the empty batch.
SaveBlocked_NoEmptyGuard(saving, itemsToDelete) == saving

\* `if (isSaving || itemsToDelete.length === 0) return;`
SaveBlocked(saving, itemsToDelete) == saving \/ itemsToDelete = {}

HandleSave ==
  /\ IF SaveBlocked(isSaving, ItemsToDelete(deleteMap))
       THEN /\ last' = Event("save", <<>>, {})
            /\ UNCHANGED <<isSaving, deletes, issued>>
       ELSE /\ issued < MaxCalls
            /\ issued' = issued + 1
            /\ isSaving' = TRUE
            /\ deletes' = Append(deletes,
                 [seq |-> issued + 1, watchlistId |-> watchlistId,
                  itemsToDelete |-> ItemsToDelete(deleteMap),
                  stocks |-> stocks])
            /\ last' = Event("save", <<>>, {"bulkDeleteFromWatchlist"})
  /\ UNCHANGED <<watchlistId, stocks, isReady, deleteMap, lastOrderRef,
                 task, store, rearranges>>

\* Mutant: the success continuation reads the selection map again.
Updated_LiveSelection(call) == RemoveDeleted(call.stocks, ItemsToDelete(deleteMap))

\* `updated` of the success continuation: the closure's stocks without the batch.
Updated(call) == RemoveDeleted(call.stocks, call.itemsToDelete)

\* Mutant: the success path forgets `lastOrderRef.current = ...`.
DeleteOk_KeepsRef(i) ==
  /\ i \in 1 .. Len(deletes)
  /\ stocks' = Updated(deletes[i])
  /\ store' = [store EXCEPT ![deletes[i].watchlistId] = Updated(deletes[i])]
  /\ deleteMap' = EmptyMap
  /\ isSaving' = FALSE
  /\ deletes' = RemoveAt(deletes, i)
  /\ last' = Event("deleteOk", deletes[i], {"setData", "goBack"})
  /\ UNCHANGED <<watchlistId, isReady, task, rearranges, issued, lastOrderRef>>

\* Mutant: the success path forgets `deleteMap.set({})`.
DeleteOk_KeepsSelection(i) ==
  /\ i \in 1 .. Len(deletes)
  /\ stocks' = Updated(deletes[i])
  /\ store' = [store EXCEPT ![deletes[i].watchlistId] = Updated(deletes[i])]
  /\ lastOrderRef' = Tokens(Updated(deletes[i]))
  /\ isSaving' = FALSE
  /\ deletes' = RemoveAt(deletes, i)
  /\ last' = Event("deleteOk", deletes[i], {"setData", "goBack"})
  /\ UNCHANGED <<watchlistId, isReady, task, rearranges, issued, deleteMap>>

\* The success continuation of handleSave (lines 230-236, then finally).
DeleteOk(i) ==
  /\ i \in 1 .. Len(deletes)
  /\ stocks' = Updated(deletes[i])
  /\ store' = [store EXCEPT ![deletes[i].watchlistId] = Updated(deletes[i])]
  /\ lastOrderRef' = Tokens(Updated(deletes[i]))
  /\ deleteMap' = EmptyMap
  /\ isSaving' = FALSE
  /\ deletes' = RemoveAt(deletes, i)
  /\ last' = Event("deleteOk", deletes[i], {"setData", "goBack"})
  /\ UNCHANGED <<watchlistId, isReady, task, rearranges, issued>>

\* Mutant: the failure path clears the selection like the success path.
DeleteFail_ClearsSelection(i) ==
  /\ i \in 1 .. Len(deletes)
  /\ deleteMap' = EmptyMap
  /\ isSaving' = FALSE
  /\ deletes' = RemoveAt(deletes, i)
  /\ last' = Event("deleteFail", deletes[i], {"showError"})
  /\ UNCHANGED <<watchlistId, stocks, isReady, lastOrderRef, task, store, rearranges, issued>>

\* Mutant: `setIsSaving(false)` sits in the try block, not in finally.
DeleteFail_KeepsSaving(i) ==
  /\ i \in 1 .. Len(deletes)
  /\ deletes' = RemoveAt(deletes, i)
  /\ last' = Event("deleteFail", deletes[i], {"showError"})
  /\ UNCHANGED <<watchlistId, stocks, isReady, deleteMap, isSaving, lastOrderRef, task,
                 store, rearranges, issued>>

\* The catch block of handleSave (lines 237-239, then finally).
DeleteFail(i) ==
  /\ i \in 1 .. Len(deletes)
  /\ isSaving' = FALSE
  /\ deletes' = RemoveAt(deletes, i)
  /\ last' = Event("deleteFail", deletes[i], {"showError"})
  /\ UNCHANGED <<watchlistId, stocks, isReady, deleteMap, lastOrderRef, task, store,
                 rearranges, issued>>

Next ==
  \/ \E w \in WatchlistIds : Enter(w)
  \/ Load
  \/ Exit
  \/ \E item \in Items : Toggle(item)
  \/ \E newOrder \in DragOrders(stocks) : OnDragEnd(newOrder)
  \/ \E i \in 1 .. Len(rearranges) : RearrangeOk(i)
  \/ \E i \in 1 .. Len(rearranges) : RearrangeFail(i)
  \/ HandleSave
  \/ \E i \in 1 .. Len(deletes) : DeleteOk(i)
  \/ \E i \in 1 .. Len(deletes) : DeleteFail(i)

Spec == Init /\ [][Next]_vars

TypeOK ==
  /\ watchlistId \in WatchlistIds
  /\ isReady \in BOOLEAN /\ isSaving \in BOOLEAN
  /\ task \in {"none", "pending", "ran"}
  /\ Len(rearranges) + Len(deletes) <= issued
  /\ issued <= MaxCalls

\* ------------------------------------------------------------- the claims
TokenSet(list) == {Tok(list[i]) : i \in 1 .. Len(list)}

\* rest is list without exactly the items whose identity is in S, in list's order.
IsRemainder(rest, list, S) ==
  LET keep == {i \in 1 .. Len(list) : Tok(list[i]) \notin S}
  IN /\ Len(rest) = Cardinality(keep)
     /\ \E f \in [1 .. Len(rest) -> keep] :
          /\ \A i, j \in 1 .. Len(rest) : i < j => f[i] < f[j]
          /\ \A i \in 1 .. Len(rest) : rest[i] = list[f[i]]

RemoteResponses == {"rearrangeOk", "rearrangeFail", "deleteOk", "deleteFail"}

\* C1: when Save has just issued the bulk delete of the marked set S and the call
\* succeeds with no event in between, the collection becomes the previous one
\* without the items of S (order kept), the selection map becomes empty,
\* lastOrderRef becomes the tokens of the remaining items and the store receives
\* the same remaining list.
C1_SuccessfulDelete ==
  [][(last.op = "save" /\ last.calls = {"bulkDeleteFromWatchlist"} /\ last'.op = "deleteOk")
       => LET S == ItemsToDelete(deleteMap)
          IN /\ S # {}
             /\ IsRemainder(stocks', stocks, S)
             /\ DOMAIN deleteMap' = {}
             /\ \A i \in 1 .. Len(stocks') : lastOrderRef'[i] = Tok(stocks'[i])
             /\ Len(lastOrderRef') = Len(stocks')
             /\ "setData" \in last'.calls
             /\ store'[watchlistId] = stocks']_vars

\* A successful first call of the run was a bulk delete that left two items.
C1_Witness ==
  /\ last.op = "deleteOk"
  /\ issued = 1
  /\ Len(stocks) = 2
  /\ store[watchlistId] = stocks

\* C2: a failed bulk delete leaves stocks, lastOrderRef, the selection map and
\* the store as they were, does not call goBack and calls showError.
C2_FailedDelete ==
  [][last'.op = "deleteFail"
       => /\ UNCHANGED <<stocks, lastOrderRef, deleteMap, store>>
          /\ "goBack" \notin last'.calls
          /\ "showError" \in last'.calls]_vars

C2_Witness ==
  /\ last.op = "deleteFail"
  /\ ItemsToDelete(deleteMap) # {}
  /\ stocks # <<>>

\* C3: at most one bulk delete is unresolved, isSaving is true while it is, and a
\* Save invoked while isSaving is true issues no call and changes nothing.
C3_SingleDeleteInFlight ==
  [][/\ Len(deletes') <= 1
     /\ (deletes' # <<>> => isSaving')
     /\ ((isSaving /\ last'.op = "save")
           => /\ last'.calls = {}
              /\ UNCHANGED <<watchlistId, stocks, isReady, deleteMap, isSaving,
                             lastOrderRef, task, store, rearranges, deletes, issued>>)]_vars

\* Save was invoked, and refused, with a non-empty selection while a delete is unresolved.
C3_Witness ==
  /\ last.op = "save"
  /\ last.calls = {}
  /\ isSaving
  /\ Len(deletes) = 1
  /\ ItemsToDelete(deleteMap) # {}

\* C4: a drag that ends in an order whose tokens equal lastOrderRef position by
\* position changes nothing and issues no rearrange call.
C4_NoOpDrag ==
  [][(last'.op = "drag" /\ Tokens(last'.arg) = lastOrderRef)
       => /\ last'.calls = {}
          /\ UNCHANGED <<watchlistId, stocks, isReady, deleteMap, isSaving,
                         lastOrderRef, task, store, rearranges, deletes, issued>>]_vars

C4_Witness ==
  /\ last.op = "drag"
  /\ last.calls = {}
  /\ last.arg = stocks
  /\ Len(stocks) = NumItems

\* C5: a drag that ends in an order differing from lastOrderRef in some position
\* makes that order the collection and its tokens lastOrderRef at once, and
\* issues exactly one rearrange call carrying those tokens; the store is not
\* written by the event.
C5_OptimisticDrag ==
  [][(last'.op = "drag" /\ Tokens(last'.arg) # lastOrderRef)
       => /\ stocks' = last'.arg
          /\ lastOrderRef' = Tokens(last'.arg)
          /\ last'.calls = {"rearrangeWatchlist"}
          /\ Len(rearranges') = Len(rearranges) + 1
          /\ SubSeq(rearranges', 1, Len(rearranges)) = rearranges
          /\ rearranges'[Len(rearranges')].newTokens = Tokens(last'.arg)
          /\ store' = store]_vars

\* A differing drag was applied while its call (and an earlier one) is unresolved.
C5_Witness ==
  /\ last.op = "drag"
  /\ last.calls = {"rearrangeWatchlist"}
  /\ stocks = last.arg
  /\ Len(rearranges) = 2
  /\ store[watchlistId] # stocks

\* C6: a Save invoked while nothing is marked true issues no call and changes
\* nothing (goBack is not called either).
C6_EmptySave ==
  [][(last'.op = "save" /\ ItemsToDelete(deleteMap) = {})
       => /\ last'.calls = {}
          /\ UNCHANGED <<watchlistId, stocks, isReady, deleteMap, isSaving,
                         lastOrderRef, task, store, rearranges, deletes, issued>>]_vars

\* Save was invoked on a rendered list whose map has keys, none of them true.
C6_Witness ==
  /\ last.op = "save"
  /\ last.calls = {}
  /\ ~isSaving
  /\ Rendered
  /\ DOMAIN deleteMap # {}
  /\ ItemsToDelete(deleteMap) = {}

C8_SavingReleased ==
  [][/\ (last'.op \in {"deleteOk", "deleteFail"} => ~isSaving')
     /\ (isSaving' => deletes' # <<>>)
     /\ ((last.op = "deleteFail" /\ last'.op = "save" /\ ItemsToDelete(deleteMap) # {})
           => /\ "bulkDeleteFromWatchlist" \in last'.calls
              /\ Len(deletes') = Len(deletes) + 1)]_vars

\* The second call of the run is a bulk delete, issued after the first call
\* was resolved without a write to the store.
C8_Witness ==
  /\ last.op = "save"
  /\ last.calls = {"bulkDeleteFromWatchlist"}
  /\ issued = 2
  /\ Len(deletes) = 1
  /\ rearranges = <<>>
  /\ store = InitialStore

\* C9 as stated: unless a rearrange call is unresolved, lastOrderRef and stocks
\* hold the same set of tokens (after teardown too).
C9_Original ==
  rearranges = <<>> => TokenSet(stocks) = Range(lastOrderRef)

\* C9 as amended: whenever isReady is true or stocks is non-empty, lastOrderRef
\* and stocks hold the same set of tokens (also while a rearrange call is
\* unresolved); teardown empties stocks and leaves lastOrderRef as it was.
C9_SameTokens ==
  (isReady \/ stocks # <<>>) => TokenSet(stocks) = Range(lastOrderRef)

\* A bulk delete succeeded on the rendered list and left items.
C9_Witness ==
  /\ last.op = "deleteOk"
  /\ isReady
  /\ stocks # <<>>
  /\ lastOrderRef # <<>>

\* C10: every key of the selection map is the token of an item of stocks.
C10_SelectionWithinCollection ==
  DOMAIN deleteMap \subseteq TokenSet(stocks)

\* A row was toggled while a bulk delete is unresolved.
C10_Witness ==
  /\ last.op = "toggle"
  /\ deletes # <<>>
  /\ ItemsToDelete(deleteMap) # deletes[1].itemsToDelete

\* C11: a toggle flips the value of its identity (absent counts as false and
\* becomes true) and leaves every other identity's value alone; a second
\* toggle of the same identity right after the first returns the value to the
\* one the identity had before the first.
C11_ToggleTwice ==
  [][/\ (last'.op = "toggle")
          => /\ last'.arg[1] \in DOMAIN deleteMap'
             /\ deleteMap'[last'.arg[1]] # IsMarked(deleteMap, last'.arg[1])
             /\ \A k \in (DOMAIN deleteMap \cup DOMAIN deleteMap') \ {last'.arg[1]} :
                  /\ k \in DOMAIN deleteMap /\ k \in DOMAIN deleteMap'
                  /\ deleteMap'[k] = deleteMap[k]
     /\ (last.op = "toggle" /\ last'.op = "toggle" /\ last'.arg[1] = last.arg[1])
          => ToString(deleteMap'[last.arg[1]]) = last.arg[2]]_vars

\* An identity that was marked has just been toggled back to false, next to
\* another identity that is marked.
C11_Witness ==
  /\ last.op = "toggle"
  /\ last.arg[2] = "TRUE"
  /\ deleteMap[last.arg[1]] = FALSE
  /\ ItemsToDelete(deleteMap) # {}

\* C12: the derived selected count is the number of identities whose value is
\* true; keys with value false and absent keys count for nothing.
C12_SelectedCount ==
  selectedCount = Cardinality({k \in TokenSet(InitialStore["w1"]) :
                                 k \in DOMAIN deleteMap /\ deleteMap[k] = TRUE})

\* After a call was issued: one identity true, one present and false, one absent.
C12_Witness ==
  /\ issued > 0
  /\ Cardinality(DOMAIN deleteMap) = 2
  /\ selectedCount = 1
  /\ \E k \in DOMAIN deleteMap : ~deleteMap[k]

\* C13: the delete batch is fixed at Save. The call carries the identities
\* marked at Save; a toggle leaves the calls in flight as they are; on success
\* the identities that leave the list are those of the call, whatever the
\* selection map holds by then.
C13_BatchFixedAtSave ==
  [][/\ (last'.op = "save" /\ last'.calls # {})
          => /\ Len(deletes') = Len(deletes) + 1
             /\ deletes'[Len(deletes')].itemsToDelete = ItemsToDelete(deleteMap)
     /\ (last'.op = "toggle") => deletes' = deletes
     /\ (last'.op = "deleteOk")
          => /\ \E i \in 1 .. Len(deletes) : deletes[i] = last'.arg
             /\ TokenSet(stocks') = TokenSet(last'.arg.stocks) \ last'.arg.itemsToDelete
             /\ (stocks = last'.arg.stocks)
                  => IsRemainder(stocks', stocks, last'.arg.itemsToDelete)]_vars

\* A toggle during the flight has made the selection differ from the batch sent.
C13_Witness ==
  /\ last.op = "toggle"
  /\ deletes # <<>>
  /\ stocks = deletes[1].stocks
  /\ \E t \in deletes[1].itemsToDelete : ~IsMarked(deleteMap, t)
  /\ \E t \in ItemsToDelete(deleteMap) : t \notin deletes[1].itemsToDelete

\* C14: a failed rearrange call changes nothing: the optimistic order stays in
\* the collection and in lastOrderRef, the store is not written and no error is
\* presented.
C14_RearrangeFailure ==
  [][/\ (last'.op = "rearrangeFail")
          => /\ UNCHANGED <<stocks, lastOrderRef, store, deleteMap, isSaving, isReady>>
             /\ last'.calls = {}
     /\ (last.op = "drag" /\ last.calls # {} /\ last'.op = "rearrangeFail"
           /\ last'.arg.seq = issued)
          => /\ stocks' = last.arg
             /\ lastOrderRef' = Tokens(last.arg)
             /\ last'.arg.newOrder = last.arg]_vars

\* The call of the order on screen has failed and the store still holds another.
C14_Witness ==
  /\ last.op = "rearrangeFail"
  /\ isReady
  /\ last.arg.watchlistId = watchlistId
  /\ stocks = last.arg.newOrder
  /\ store[watchlistId] # stocks

\* C15: reorder calls are neither queued nor cancelled. A differing drag issues
\* its call at once and leaves the calls in flight in place; a successful
\* response writes its own candidate to the store whatever else is in flight;
\* when the newer of two calls for one watchlist has succeeded first, the later
\* success of the older one leaves the store with the older order while the
\* collection keeps the newer one.
C15_OverlappingReorders ==
  [][/\ (last'.op = "drag" /\ Tokens(last'.arg) # lastOrderRef)
          => /\ last'.calls = {"rearrangeWatchlist"}
             /\ Len(rearranges') = Len(rearranges) + 1
             /\ SubSeq(rearranges', 1, Len(rearranges)) = rearranges
             /\ rearranges'[Len(rearranges')].newOrder = last'.arg
     /\ (last'.op = "rearrangeOk")
          => /\ store' = [store EXCEPT ![last'.arg.watchlistId] = last'.arg.newOrder]
             /\ \E i \in 1 .. Len(rearranges) :
                  rearranges[i] = last'.arg /\ rearranges' = RemoveAt(rearranges, i)
             /\ UNCHANGED <<stocks, lastOrderRef>>
     /\ (/\ last.op = "rearrangeOk" /\ last'.op = "rearrangeOk"
         /\ last'.arg.seq < last.arg.seq
         /\ last'.arg.watchlistId = last.arg.watchlistId
         /\ watchlistId = last.arg.watchlistId
         /\ isReady /\ stocks = last.arg.newOrder)
          => /\ store[watchlistId] = last.arg.newOrder
             /\ store'[watchlistId] = last'.arg.newOrder
             /\ stocks' = last.arg.newOrder
             /\ (last'.arg.newTokens # last.arg.newTokens) => store'[watchlistId] # stocks']_vars

\* The newer of two overlapping calls has succeeded; the older one, with a
\* different order, is still in flight.
C15_Witness ==
  /\ last.op = "rearrangeOk"
  /\ isReady
  /\ last.arg.watchlistId = watchlistId
  /\ stocks = last.arg.newOrder
  /\ store[watchlistId] = stocks
  /\ Len(rearranges) = 1
  /\ rearranges[1].seq < last.arg.seq
  /\ rearranges[1].watchlistId = watchlistId
  /\ rearranges[1].newOrder # stocks

\* C16: the cleanup leaves the collection empty, the selection empty and isReady
\* false and cancels the deferred task, whether or not the load had run; from
\* then until the next entry no load runs, isReady stays false, and the
\* collection is written by nothing but a bulk-delete response.
C16_ExitClears ==
  [][/\ (last'.op = "exit")
          => /\ stocks' = <<>>
             /\ DOMAIN deleteMap' = {}
             /\ ~isReady'
             /\ task' = "none"
     /\ (task = "none")
          => /\ last'.op # "load"
             /\ ~isReady'
             /\ (last'.op # "deleteOk") => stocks' = stocks]_vars

\* Exit before the first deferred load has run.
C16_Witness ==
  /\ last.op = "exit"
  /\ lastOrderRef = <<>>
  /\ issued = 0
  /\ task = "none"
  /\ stocks = <<>>
  /\ ~isReady

\* C17: the cleanup cancels no remote call. The calls in flight stay in flight
\* over an exit, and a success that arrives after it still applies: a rearrange
\* writes its candidate to the store; a bulk delete writes the filtered list to
\* the collection, to lastOrderRef and to the store and clears the selection,
\* while isReady stays false.
C17_LateResponses ==
  [][/\ (last'.op = "exit") => UNCHANGED <<rearranges, deletes, store>>
     /\ (task = "none" /\ last'.op = "rearrangeOk")
          => store' = [store EXCEPT ![last'.arg.watchlistId] = last'.arg.newOrder]
     /\ (task = "none" /\ last'.op = "deleteOk")
          => /\ IsRemainder(stocks', last'.arg.stocks, last'.arg.itemsToDelete)
             /\ lastOrderRef' = Tokens(stocks')
             /\ store' = [store EXCEPT ![last'.arg.watchlistId] = stocks']
             /\ DOMAIN deleteMap' = {}
             /\ ~isReady']_vars

\* After the cleanup a bulk delete has succeeded: the collection is non-empty
\* while isReady is false.
C17_Witness ==
  /\ last.op = "deleteOk"
  /\ task = "none"
  /\ ~isReady
  /\ stocks # <<>>
  /\ lastOrderRef = Tokens(stocks)
  /\ store[last.arg.watchlistId] = stocks

\* C20: whenever isReady is true, lastOrderRef is the token sequence of the
\* collection, position by position and of the same length; hence a drag issues
\* no call exactly when the candidate's tokens are those of the order on screen.
C20_RefMatchesCollection ==
  [][/\ isReady => lastOrderRef = Tokens(stocks)
     /\ isReady' => /\ Len(lastOrderRef') = Len(stocks')
                    /\ \A i \in 1 .. Len(stocks') : lastOrderRef'[i] = Tok(stocks'[i])
     /\ (last'.op = "drag")
          => (last'.calls = {} <=> Tokens(last'.arg) = Tokens(stocks))]_vars

\* A late bulk-delete success has rewritten the collection of a ready screen.
C20_Witness ==
  /\ isReady
  /\ last.op = "deleteOk"
  /\ stocks # <<>>
  /\ stocks # last.arg.stocks
  /\ lastOrderRef = Tokens(stocks)

\* C18: a drag that reordered the collection while a bulk delete was in flight
\* survives the delete: when the delete succeeds right after it, the
\* collection, lastOrderRef and the list sent to the store are the collection as
\* it stood just before the response (the dragged order) without the batch.
C18_ReorderSurvivesDelete ==
  [][(/\ last.op = "drag" /\ last.calls # {}
      /\ deletes # <<>>
      /\ last'.op = "deleteOk")
       => /\ IsRemainder(stocks', stocks, last'.arg.itemsToDelete)
          /\ lastOrderRef' = Tokens(stocks')
          /\ store'[last'.arg.watchlistId] = stocks']_vars

\* C19: once a bulk delete of the batch S has succeeded and every call issued
\* before it has resolved, the store's list of that watchlist holds no item
\* whose identity is in S, also when the last such call is a rearrange that
\* succeeds after the delete.
C19_StoreWithoutDeleted ==
  [][/\ (/\ last'.op = "deleteOk"
         /\ \A i \in 1 .. Len(rearranges') : rearranges'[i].seq > last'.arg.seq)
          => TokenSet(store'[last'.arg.watchlistId]) \cap last'.arg.itemsToDelete = {}
     /\ (/\ last.op = "deleteOk"
         /\ last'.op = "rearrangeOk"
         /\ last'.arg.watchlistId = last.arg.watchlistId
         /\ last'.arg.seq < last.arg.seq
         /\ \A i \in 1 .. Len(rearranges') : rearranges'[i].seq > last.arg.seq)
          => TokenSet(store'[last.arg.watchlistId]) \cap last.arg.itemsToDelete = {}]_vars
====
